---- MODULE Spec2Model ----
(***************************************************************************)
(* The SSH server of PythonSSHServerTutorial: the per-connection handler   *)
(* (SshServer.connection_function), the policy object the transport        *)
(* consults (SshServerInterface) and the command shell (Shell, a cmd.Cmd). *)
(*                                                                         *)
(* Text is a sequence of one-character strings, so that splitting,         *)
(* stripping and formatting are computed character by character.  What is  *)
(* written to a stream is a sequence of chunks, one per write() call.      *)
(***************************************************************************)
EXTENDS Integers, Sequences, FiniteSets, TLC

(***************************************************************************)
(* Bounds of the model.                                                    *)
(***************************************************************************)
\* number of connections the server has room for
NConn == 2
\* password attempts a client makes on one connection
MaxTries == 2

Conns == 1..NConn

(***************************************************************************)
(* String literals of the program.                                         *)
(***************************************************************************)
\* shell.py:6  'Custom SSH Shell'
intro ==
    <<"C","u","s","t","o","m"," ","S","S","H"," ","S","h","e","l","l">>
\* shell.py:15  'My Shell> '
prompt ==
    <<"M","y"," ","S","h","e","l","l",">"," ">>
\* shell.py:10
use_rawinput == FALSE
\* '\n'
LF == <<"\n">>
\* shell.py:32  '\r\n'
CRLF == <<"\r","\n">>
\* cmd.py: the line cmdloop substitutes for an end-of-file read, 'EOF'
EOF_MARK == <<"E","O","F">>
\* cmd.py: parseline rewrites a leading '?' to 'help '
HELP_SP == <<"h","e","l","p"," ">>
\* the command names for which the Shell has a do_ method
CMD_GREET == <<"g","r","e","e","t">>
CMD_BYE == <<"b","y","e">>
CMD_HELP == <<"h","e","l","p">>
\* shell.py:40  'Hey {0}! Nice to see you!'
HEY == <<"H","e","y"," ">>
NICE ==
    <<"!"," ","N","i","c","e"," ","t","o"," ","s","e","e"," ","y","o","u","!">>
\* shell.py:42  'Hello there!'
HELLO_THERE ==
    <<"H","e","l","l","o"," ","t","h","e","r","e","!">>
\* shell.py:46  'See you later!'
SEE_YOU ==
    <<"S","e","e"," ","y","o","u"," ","l","a","t","e","r","!">>
\* cmd.py: default()  '*** Unknown syntax: %s\n'
UNKNOWN_SYNTAX ==
    <<"*","*","*"," ","U","n","k","n","o","w","n"," ","s","y","n","t","a","x",":"," ">>
\* cmd.py: nohelp  '*** No help on %s'
NOHELP ==
    <<"*","*","*"," ","N","o"," ","h","e","l","p"," ","o","n"," ">>
\* cmd.py: the docstring of do_help
HELP_DOC ==
    <<"L","i","s","t"," ","a","v","a","i","l","a","b","l","e"," ","c","o","m","m","a","n","d","s"," ","w","i","t","h"," ","\"","h","e","l","p","\""," ","o","r"," ","d","e","t","a","i","l","e","d"," ","h","e","l","p"," ","w","i","t","h"," ","\"","h","e","l","p"," ","c","m","d","\"",".">>
\* cmd.py: doc_header, undoc_header, and the rulers print_topics draws under them
DOC_HEADER ==
    <<"D","o","c","u","m","e","n","t","e","d"," ","c","o","m","m","a","n","d","s"," ","(","t","y","p","e"," ","h","e","l","p"," ","<","t","o","p","i","c",">",")",":">>
DOC_RULER ==
    <<"=","=","=","=","=","=","=","=","=","=","=","=","=","=","=","=","=","=","=","=","=","=","=","=","=","=","=","=","=","=","=","=","=","=","=","=","=","=","=","=">>
UNDOC_HEADER ==
    <<"U","n","d","o","c","u","m","e","n","t","e","d"," ","c","o","m","m","a","n","d","s",":">>
UNDOC_RULER ==
    <<"=","=","=","=","=","=","=","=","=","=","=","=","=","=","=","=","=","=","=","=","=","=">>
\* the columnized names of the undocumented commands: 'bye  greet'
UNDOC_NAMES ==
    <<"b","y","e"," "," ","g","r","e","e","t">>
\* ssh_server_interface.py:41  'My SSH Server\r\n'
BANNER_TEXT ==
    <<"M","y"," ","S","S","H"," ","S","e","r","v","e","r","\r","\n">>

\* cmd.py: IDENTCHARS = string.ascii_letters + string.digits + '_'
IDENTCHARS ==
    {"a","b","c","d","e","f","g","h","i","j","k","l","m","n","o","p","q","r","s","t","u","v","w","x","y","z",
     "A","B","C","D","E","F","G","H","I","J","K","L","M","N","O","P","Q","R","S","T","U","V","W","X","Y","Z",
     "0","1","2","3","4","5","6","7","8","9","_"}
\* the characters str.strip() removes, those for which str.isspace() is
\* true: tab, line feed, vertical tab (0x0b), form feed, carriage return,
\* the separators 0x1c to 0x1f, space, next-line (0x85), no-break space
\* (0xa0) and the Ogham space mark (U+1680).  str.isspace() is true as well
\* for U+2000 to U+200A, U+2028, U+2029, U+202F, U+205F and U+3000: a string
\* of a TLA+ module cannot hold a character from U+2000 on, so no line
\* this module can state contains one of them.
WHITESPACE ==
    {"\t", "\n", "", "\f", "\r", "", "", "", "", " ",
     "", " ", " "}

(***************************************************************************)
(* F(v), with v evaluated once and F applied to its value.                 *)
(***************************************************************************)
ByValue(v, F(_)) == CHOOSE r \in {F(x) : x \in {v}} : TRUE

(***************************************************************************)
(* str.lstrip / str.rstrip / str.strip, and the slice s[i:].               *)
(***************************************************************************)
RECURSIVE lstrip(_, _)
lstrip(s, chars) ==
    IF s # <<>> /\ Head(s) \in chars THEN lstrip(Tail(s), chars) ELSE s

RECURSIVE rstrip(_, _)
rstrip(s, chars) ==
    IF s # <<>> /\ s[Len(s)] \in chars
    THEN rstrip(SubSeq(s, 1, Len(s) - 1), chars)
    ELSE s

strip(s) == ByValue(lstrip(s, WHITESPACE), LAMBDA x : rstrip(x, WHITESPACE))

\* the number of leading characters of s that are in chars
RECURSIVE span(_, _)
span(s, chars) ==
    IF s # <<>> /\ Head(s) \in chars THEN 1 + span(Tail(s), chars) ELSE 0

(***************************************************************************)
(* paramiko's result codes, as the policy object returns them.             *)
(***************************************************************************)
OPEN_SUCCEEDED == 0
OPEN_FAILED_ADMINISTRATIVELY_PROHIBITED == 1
AUTH_SUCCESSFUL == 0
AUTH_FAILED == 2

(***************************************************************************)
(* SshServerInterface: the four decisions and the banner.                  *)
(***************************************************************************)
check_channel_request_AnyKind(kind, chanid) == OPEN_SUCCEEDED

check_channel_request(kind, chanid) ==
    IF kind = "session"
    THEN OPEN_SUCCEEDED
    ELSE OPEN_FAILED_ADMINISTRATIVELY_PROHIBITED

check_channel_pty_request(channel, term, width, height, pixelwidth, pixelheight, modes) ==
    TRUE

check_channel_shell_request(channel) == TRUE

check_auth_password_AnyAdmin(username, password) ==
    IF username = "admin" THEN AUTH_SUCCESSFUL ELSE AUTH_FAILED

check_auth_password(username, password) ==
    IF (username = "admin") /\ (password = "password")
    THEN AUTH_SUCCESSFUL
    ELSE AUTH_FAILED

get_banner == <<BANNER_TEXT, "en-US">>

(***************************************************************************)
(* Streams.  The state of a connection's stdio file (channel.makefile):    *)
(*   "none"    no stream yet                                               *)
(*   "open"    the peer is connected: reads deliver lines, writes succeed  *)
(*   "eof"     the peer sent end-of-file: reads return '', writes succeed  *)
(*   "shut"    the channel is closed: reads return '', writes raise        *)
(*   "closed"  the file object itself is closed (its .closed is true):     *)
(*             reads and writes raise                                      *)
(* A write result is [out, raised]: the chunks written so far and whether  *)
(* the call raised.                                                        *)
(***************************************************************************)
StreamStates == {"none", "open", "eof", "shut", "closed"}

\* one call of stdout.write(value), with the stdout.flush() that follows it
\* where cmd.Cmd and Shell.print flush
write(st, o, value) ==
    IF st \in {"open", "eof"}
    THEN [out |-> Append(o, value), raised |-> FALSE]
    ELSE [out |-> o, raised |-> TRUE]

(***************************************************************************)
(* Shell: print, printline and the two commands.  A command method makes   *)
(* a sequence of output calls and returns; its result is [calls, stop]:    *)
(* stop is what the method returns (None is FALSE), and a call is          *)
(* [text, guarded]: guarded says that the call is Shell.print, which       *)
(* writes only after it has found stdout set and not closed.               *)
(***************************************************************************)
\* cmd.Cmd's own self.stdout.write(value)
stdout_write(value) == [text |-> value, guarded |-> FALSE]

print(value) == [text |-> value, guarded |-> TRUE]

printline(value) == print(value \o CRLF)

\* Shell.print's test "self.stdout and not self.stdout.closed"
print_guard(st) == st # "none" /\ st # "closed"

do_greet_IgnoresArg(arg) ==
    [calls |-> << printline(HELLO_THERE) >>, stop |-> FALSE]

do_greet(arg) ==
    [calls |-> << IF arg # <<>>
                  THEN printline(HEY \o arg \o NICE)
                  ELSE printline(HELLO_THERE) >>,
     stop |-> FALSE]

do_bye_NoReturn(arg) ==
    [calls |-> << printline(SEE_YOU) >>, stop |-> FALSE]

do_bye(arg) ==
    [calls |-> << printline(SEE_YOU) >>, stop |-> TRUE]

(***************************************************************************)
(* cmd.Cmd, the base class of Shell: parseline, default, do_help and the   *)
(* choice of the method onecmd calls.  Shell overrides none of them.       *)
(***************************************************************************)
\* the split at the first whitespace character instead
splitcmd_AtWhitespace(l) ==
    LET i == CHOOSE n \in 0..Len(l) :
                 /\ \A k \in 1..n : l[k] \notin WHITESPACE
                 /\ n = Len(l) \/ l[n + 1] \in WHITESPACE
    IN  [none |-> FALSE,
         cmd  |-> SubSeq(l, 1, i),
         arg  |-> strip(SubSeq(l, i + 1, Len(l))),
         line |-> l]

\* line[:i], line[i:].strip() with i the length of the leading identifier
splitcmd(l) ==
    LET i == span(l, IDENTCHARS)
    IN  [none |-> FALSE,
         cmd  |-> SubSeq(l, 1, i),
         arg  |-> strip(SubSeq(l, i + 1, Len(l))),
         line |-> l]

\* parseline returns (cmd, arg, line); none says that cmd and arg are None.
\* The Shell has no do_shell, so a leading '!' is not rewritten.
parsestripped(l) ==
    IF l = <<>> THEN [none |-> TRUE, cmd |-> <<>>, arg |-> <<>>, line |-> l]
    ELSE IF Head(l) = "?" THEN ByValue(HELP_SP \o Tail(l), splitcmd)
    ELSE IF Head(l) = "!" THEN [none |-> TRUE, cmd |-> <<>>, arg |-> <<>>, line |-> l]
    ELSE splitcmd(l)

\* line = line.strip(), and the rest of parseline
parseline(line) == ByValue(strip(line), parsestripped)

default_Stops(line) ==
    [calls |-> << stdout_write(UNKNOWN_SYNTAX \o line \o LF) >>, stop |-> TRUE]

default(line) ==
    [calls |-> << stdout_write(UNKNOWN_SYNTAX \o line \o LF) >>, stop |-> FALSE]

\* what "help" with no argument writes, one stdout.write() per element: help
\* is the one documented command (do_help has a docstring), bye and greet
\* are undocumented
HelpListing ==
    << LF, DOC_HEADER \o LF, DOC_RULER \o LF, CMD_HELP \o LF, LF,
       UNDOC_HEADER \o LF, UNDOC_RULER \o LF, UNDOC_NAMES \o LF, LF >>

do_help(arg) ==
    [calls |-> IF arg # <<>>
               THEN IF arg = CMD_HELP
                    THEN << stdout_write(HELP_DOC \o LF) >>
                    ELSE << stdout_write(NOHELP \o arg \o LF) >>
               ELSE [i \in 1..Len(HelpListing) |-> stdout_write(HelpListing[i])],
     stop |-> FALSE]

HasCommand_NoHelp(cmd) == cmd \in {CMD_GREET, CMD_BYE}

\* getattr(self, 'do_' + cmd): the do_ methods of Shell and of cmd.Cmd
HasCommand(cmd) == cmd \in {CMD_GREET, CMD_BYE, CMD_HELP}

\* func(arg); ran names the method and arg what it is called with
dispatch(cmd, arg) ==
    IF cmd = CMD_GREET THEN [ran |-> "do_greet", arg |-> arg] @@ do_greet(arg)
    ELSE IF cmd = CMD_BYE THEN [ran |-> "do_bye", arg |-> arg] @@ do_bye(arg)
    ELSE [ran |-> "do_help", arg |-> arg] @@ do_help(arg)

\* onecmd after "cmd, arg, line = self.parseline(line)", p being that triple
\* of a nonempty line: the method it goes on to call, [ran, arg, calls, stop],
\* and whether it sets self.lastcmd before the call (it does not when cmd is
\* None)
interpret(p) ==
    IF p.none
    THEN [ran |-> "default", arg |-> p.line, sets |-> FALSE] @@ default(p.line)
    ELSE IF p.cmd = <<>> \/ ~HasCommand(p.cmd)
    THEN [ran |-> "default", arg |-> p.line, sets |-> TRUE] @@ default(p.line)
    ELSE [sets |-> TRUE] @@ dispatch(p.cmd, p.arg)

(***************************************************************************)
(* What a client may send.                                                 *)
(***************************************************************************)
Users == {"admin", "password"}
Passwords == {"password", "admin"}
Kinds == {"session", "direct-tcpip", "x11"}
ChanIds == {0, 1}

\* the lines a client types, as readline() returns them (terminator included)
Lines ==
    { <<"b","y","e","\n">>,                                  \* 'bye\n'
      <<"g","r","e","e","t","\n">>,                          \* 'greet\n'
      <<"g","r","e","e","t"," ","B","o","b","\r","\n">>,     \* 'greet Bob\r\n'
      <<"f","o","o"," ","b","a","r","\n">>,                  \* 'foo bar\n'
      <<"\n">>,                                              \* '\n'
      <<"h","e","l","p","\n">>,                              \* 'help\n'
      <<"?","\n">>,                                          \* '?\n'
      <<"E","O","F","\n">>,                                  \* 'EOF\n'
      <<"g","r","e","e","t","!","x","\n">>,                  \* 'greet!x\n'
      <<""," ","b","y","e"," "," ","n","o","w"," ","\n">>, \* '\x1f\u1680bye  now\xa0\n'
      <<"!","l","s","\n">>,                                 \* '!ls\n'
      <<"?"," ","g","r","e","e","t","\n">>,                  \* '? greet\n'
      <<"h","e","l","p"," ","h","e","l","p","\n">>,          \* 'help help\n'
      <<" ","\t","\n">> }                                    \* ' \t\n'

(***************************************************************************)
(* State.  t ranges over the handler threads, one per connection; c and s  *)
(* over the connections, each with its transport, its stream and the       *)
(* Shell built over that stream.                                           *)
(***************************************************************************)
VARIABLES
    backlog,       \* the clients waiting on the listening socket
    pc,            \* pc[t]: where handler thread t is in connection_function
    outcome,       \* outcome[t]: how connection_function ended
    transport,     \* transport[c]: the paramiko.Transport of connection c
    banner,        \* banner[c]: the banner was sent to the client
    authenticated, \* authenticated[c]: a password decision was AUTH_SUCCESSFUL
    tries,         \* tries[c]: password decisions made so far
    decision,      \* decision[c]: << >> or the last password decision
    chanreq,       \* chanreq[c]: << >> or the last channel-open decision
    channel,       \* channel[c]: "none", "queued" (opened, not accepted), "accepted"
    stream,        \* stream[c]: the state of the stdio file of connection c
    out,           \* out[c]: the chunks written to stream c since it was last read
    client_shell,  \* SshServer.client_shell: 0, or the connection whose Shell it holds
    running,       \* running[t]: 0, or the Shell whose cmdloop thread t runs
    lastcmd,       \* lastcmd[s]: Cmd.lastcmd of Shell s
    line,          \* line[t]: cmdloop's local, the line being interpreted
    stop,          \* stop[t]: cmdloop's local, what onecmd returned
    ran,           \* ran[t]: "-", or the method the last onecmd of thread t ran
    called,        \* called[t]: the argument that method was called with
    todo,          \* todo[t]: the onecmd call thread t is in: the line it was
                   \* given, the output calls its method has still to make, and
                   \* what the method returns
    prev,          \* prev[t]: << >> or the line interpreted before line[t]
    sawEof,        \* sawEof[t]: a readline of thread t returned end-of-file
    exited,        \* exited[t]: "no", or how cmdloop ended: "returned", "raised"
    hist           \* hist[c]: what has happened on connection c so far: the
                   \* accept() and cmdloop() calls of its handler, the intros
                   \* written to its stream, the close() calls on its transport,
                   \* and whether the client opened a channel beyond the first

vars == << backlog, pc, outcome, transport, banner, authenticated, tries, decision,
           chanreq, channel, stream, out, client_shell, running, lastcmd,
           line, stop, ran, called, todo, prev, sawEof, exited, hist >>

netVars == << transport, banner, authenticated, tries, decision, chanreq, channel >>
loopVars == << line, stop, ran, called, todo, prev, sawEof >>

\* todo[t] while thread t is in no onecmd call
NoCall == [line |-> << >>, calls |-> << >>, stop |-> FALSE]

\* everything but the clients that will connect
InitState ==
    /\ pc = [t \in Conns |-> "idle"]
    /\ outcome = [t \in Conns |-> "none"]
    /\ transport = [c \in Conns |-> "none"]
    /\ banner = [c \in Conns |-> FALSE]
    /\ authenticated = [c \in Conns |-> FALSE]
    /\ tries = [c \in Conns |-> 0]
    /\ decision = [c \in Conns |-> << >>]
    /\ chanreq = [c \in Conns |-> << >>]
    /\ channel = [c \in Conns |-> "none"]
    /\ stream = [c \in Conns |-> "none"]
    /\ out = [c \in Conns |-> << >>]
    /\ client_shell = 0
    /\ running = [t \in Conns |-> 0]
    /\ lastcmd = [s \in Conns |-> << >>]
    /\ line = [t \in Conns |-> << >>]
    /\ stop = [t \in Conns |-> FALSE]
    /\ ran = [t \in Conns |-> "-"]
    /\ called = [t \in Conns |-> << >>]
    /\ todo = [t \in Conns |-> NoCall]
    /\ prev = [t \in Conns |-> << >>]
    /\ sawEof = [t \in Conns |-> FALSE]
    /\ exited = [t \in Conns |-> "no"]
    /\ hist = [c \in Conns |->
                 [accepts |-> 0, loops |-> 0, intros |-> 0, closes |-> 0,
                  extra |-> FALSE]]

\* one client connects
Init ==
    /\ backlog = {1}
    /\ InitState

(***************************************************************************)
(* The listener (ServerBase): one handler thread per accepted client.      *)
(***************************************************************************)
ListenerAccept(t) ==
    /\ t \in backlog
    /\ pc[t] = "idle"
    /\ backlog' = backlog \ {t}
    /\ UNCHANGED hist
    /\ pc' = [pc EXCEPT ![t] = "transport"]
    /\ UNCHANGED << outcome, netVars, stream, out, client_shell, running,
                    lastcmd, loopVars, exited >>

(***************************************************************************)
(* connection_function, step by step.  An exception anywhere inside the    *)
(* outer try is swallowed by "except: pass" and the function returns.      *)
(***************************************************************************)
\* ssh_server.py:17-21
CreateTransport(t) ==
    /\ UNCHANGED << backlog, hist >>
    /\ pc[t] = "transport"
    /\ pc' = [pc EXCEPT ![t] = "start_server"]
    /\ transport' = [transport EXCEPT ![t] = "negotiating"]
    /\ UNCHANGED << outcome, banner, authenticated, tries, decision, chanreq,
                    channel, stream, out, client_shell, running, lastcmd,
                    loopVars, exited >>

\* ssh_server.py:25, the negotiation succeeds
StartServerOk(t) ==
    /\ UNCHANGED << backlog, hist >>
    /\ pc[t] = "start_server"
    /\ pc' = [pc EXCEPT ![t] = "accept"]
    /\ transport' = [transport EXCEPT ![t] = "active"]
    /\ UNCHANGED << outcome, banner, authenticated, tries, decision, chanreq,
                    channel, stream, out, client_shell, running, lastcmd,
                    loopVars, exited >>

\* start_server raises and the handler goes on to accept() all the same
StartServerFails_Continues(t, exc) ==
    /\ UNCHANGED << backlog, hist >>
    /\ pc[t] = "start_server"
    /\ pc' = [pc EXCEPT ![t] = "accept"]
    /\ transport' = [transport EXCEPT ![t] = "failed"]
    /\ UNCHANGED << outcome, banner, authenticated, tries, decision, chanreq,
                    channel, stream, out, client_shell, running, lastcmd,
                    loopVars, exited >>

\* ssh_server.py:24-27, start_server raises: an SSHException is caught and the
\* function returns; any other exception reaches "except: pass"
StartServerFails(t, exc) ==
    /\ UNCHANGED << backlog, hist >>
    /\ pc[t] = "start_server"
    /\ pc' = [pc EXCEPT ![t] = "done"]
    /\ outcome' = [outcome EXCEPT ![t] =
                      IF exc = "SSHException" THEN "returned" ELSE "swallowed"]
    /\ transport' = [transport EXCEPT ![t] = "failed"]
    /\ UNCHANGED << banner, authenticated, tries, decision, chanreq,
                    channel, stream, out, client_shell, running, lastcmd,
                    loopVars, exited >>

AcceptChannel_Unchecked(t) ==
    /\ UNCHANGED backlog
    /\ hist' = [hist EXCEPT ![t].accepts = @ + 1]
    /\ pc[t] = "accept"
    /\ pc' = [pc EXCEPT ![t] = "shell"]
    /\ channel' = [channel EXCEPT ![t] = "accepted"]
    /\ stream' = [stream EXCEPT ![t] =
                     IF transport[t] = "active" THEN "open" ELSE "shut"]
    /\ UNCHANGED << outcome, transport, banner, authenticated, tries, decision,
                    chanreq, out, client_shell, running, lastcmd, loopVars,
                    exited >>

\* ssh_server.py:30-31, a channel is waiting: accept() returns it and makefile
\* gives the stream
AcceptChannel(t) ==
    /\ UNCHANGED backlog
    /\ hist' = [hist EXCEPT ![t].accepts = @ + 1]
    /\ pc[t] = "accept"
    /\ channel[t] = "queued"
    /\ pc' = [pc EXCEPT ![t] = "shell"]
    /\ channel' = [channel EXCEPT ![t] = "accepted"]
    /\ stream' = [stream EXCEPT ![t] =
                     IF transport[t] = "active" THEN "open" ELSE "shut"]
    /\ UNCHANGED << outcome, transport, banner, authenticated, tries, decision,
                    chanreq, out, client_shell, running, lastcmd, loopVars,
                    exited >>

\* ssh_server.py:30-31, the transport ended with no channel opened: accept()
\* returns None and None.makefile raises
AcceptNone(t) ==
    /\ UNCHANGED backlog
    /\ hist' = [hist EXCEPT ![t].accepts = @ + 1]
    /\ pc[t] = "accept"
    /\ channel[t] = "none"
    /\ transport[t] = "dead"
    /\ pc' = [pc EXCEPT ![t] = "done"]
    /\ outcome' = [outcome EXCEPT ![t] = "swallowed"]
    /\ UNCHANGED << netVars, stream, out, client_shell, running, lastcmd,
                    loopVars, exited >>

\* ssh_server.py:35, self.client_shell = Shell(stdio, stdio)
NewShell(t) ==
    /\ UNCHANGED << backlog, hist >>
    /\ pc[t] = "shell"
    /\ pc' = [pc EXCEPT ![t] = "cmdloop"]
    /\ client_shell' = t
    /\ lastcmd' = [lastcmd EXCEPT ![t] = << >>]
    /\ UNCHANGED << outcome, netVars, stream, out, running, loopVars, exited >>

\* what a step of cmdloop that raised leaves behind
LoopRaised(t) ==
    /\ pc' = [pc EXCEPT ![t] = "done"]
    /\ outcome' = [outcome EXCEPT ![t] = "swallowed"]
    /\ exited' = [exited EXCEPT ![t] = "raised"]

\* ssh_server.py:36, self.client_shell.cmdloop(): the attribute is read and
\* cmdloop is called on the Shell it holds
CmdLoop(t) ==
    /\ UNCHANGED backlog
    /\ pc[t] = "cmdloop"
    /\ pc' = [pc EXCEPT ![t] = "intro"]
    /\ running' = [running EXCEPT ![t] = client_shell]
    /\ hist' = [hist EXCEPT ![t].loops = @ + 1]
    /\ UNCHANGED << outcome, netVars, stream, out, client_shell, lastcmd,
                    loopVars, exited >>

\* cmdloop, before the loop: self.stdout.write(str(self.intro)+"\n")
Intro(t) ==
    /\ UNCHANGED backlog
    /\ pc[t] = "intro"
    /\ LET s == running[t]
           w == write(stream[s], out[s], intro \o LF)
       IN  /\ out' = [out EXCEPT ![s] = w.out]
           /\ hist' = [hist EXCEPT ![s].intros = IF w.raised THEN @ ELSE @ + 1]
           /\ IF w.raised
              THEN LoopRaised(t)
              ELSE /\ pc' = [pc EXCEPT ![t] = "prompt"]
                   /\ UNCHANGED << outcome, exited >>
    /\ UNCHANGED << netVars, stream, client_shell, running, lastcmd, loopVars >>

\* cmdloop: stdout.write(self.prompt); stdout.flush()
Prompt(t) ==
    /\ UNCHANGED << backlog, hist >>
    /\ pc[t] = "prompt"
    /\ LET s == running[t]
           w == write(stream[s], out[s], prompt)
       IN  /\ out' = [out EXCEPT ![s] = w.out]
           /\ IF w.raised
              THEN LoopRaised(t)
              ELSE /\ pc' = [pc EXCEPT ![t] = "readline"]
                   /\ UNCHANGED << outcome, exited >>
    /\ UNCHANGED << netVars, stream, client_shell, running, lastcmd, loopVars >>

\* what every readline that returns does to the loop's bookkeeping; the
\* loop goes on to call self.onecmd(line)
ReadDone(t, l, eof) ==
    /\ UNCHANGED << backlog, hist >>
    /\ pc' = [pc EXCEPT ![t] = "onecmd"]
    /\ line' = [line EXCEPT ![t] = l]
    /\ todo' = [todo EXCEPT ![t] = [NoCall EXCEPT !.line = l]]
    /\ prev' = [prev EXCEPT ![t] = IF ran[t] = "-" THEN << >> ELSE << line[t] >>]
    /\ sawEof' = [sawEof EXCEPT ![t] = sawEof[t] \/ eof]
    /\ out' = [out EXCEPT ![running[t]] = << >>]
    /\ UNCHANGED << outcome, netVars, stream, client_shell, running, lastcmd,
                    stop, ran, called, exited >>

\* cmdloop: line = stdin.readline() returns a line the client sent;
\* line = line.rstrip('\r\n')
ReadLine(t, raw) ==
    /\ pc[t] = "readline"
    /\ stream[running[t]] = "open"
    /\ ReadDone(t, rstrip(raw, {"\r", "\n"}), FALSE)

\* cmdloop: readline() returns '' at end of file; line = 'EOF'
ReadEof(t) ==
    /\ pc[t] = "readline"
    /\ stream[running[t]] \in {"eof", "shut"}
    /\ ReadDone(t, EOF_MARK, TRUE)

\* cmdloop: readline() on a closed file raises
ReadClosed(t) ==
    /\ UNCHANGED << backlog, hist >>
    /\ pc[t] = "readline"
    /\ stream[running[t]] = "closed"
    /\ LoopRaised(t)
    /\ UNCHANGED << netVars, stream, out, client_shell, running, lastcmd,
                    loopVars >>

\* every onecmd ends the loop, whatever the method returned
Returned_StopsAlways(t, r) ==
    /\ stop' = [stop EXCEPT ![t] = r]
    /\ todo' = [todo EXCEPT ![t] = NoCall]
    /\ pc' = [pc EXCEPT ![t] = "close"]
    /\ exited' = [exited EXCEPT ![t] = "returned"]
    /\ UNCHANGED outcome

\* cmdloop: stop = self.onecmd(line) has returned r, and the test of
\* "while not stop"
Returned(t, r) ==
    /\ stop' = [stop EXCEPT ![t] = r]
    /\ todo' = [todo EXCEPT ![t] = NoCall]
    /\ pc' = [pc EXCEPT ![t] = IF r THEN "close" ELSE "prompt"]
    /\ exited' = [exited EXCEPT ![t] = IF r THEN "returned" ELSE "no"]
    /\ UNCHANGED outcome

\* thread t goes on with the output calls cs of a method that returns r: to
\* the guard of Shell.print, to a write, or to the method's return
Proceed(t, cs, r) ==
    IF cs = << >>
    THEN Returned(t, r)
    ELSE /\ pc' = [pc EXCEPT ![t] = IF Head(cs).guarded THEN "print" ELSE "write"]
         /\ todo' = [todo EXCEPT ![t] = [@ EXCEPT !.calls = cs, !.stop = r]]
         /\ UNCHANGED << stop, outcome, exited >>

\* onecmd(line) up to its first output call: parseline; for an empty line,
\* emptyline()'s test of self.lastcmd; otherwise self.lastcmd = line and the
\* choice of the method
OneCmd(t) ==
    /\ UNCHANGED << backlog, hist >>
    /\ pc[t] = "onecmd"
    /\ \E s \in {running[t]} :
       \E p \in {parseline(todo[t].line)} :
           IF p.line = << >>
           THEN IF lastcmd[s] # << >>
                THEN \* emptyline() goes on to self.onecmd(self.lastcmd)
                     /\ pc' = [pc EXCEPT ![t] = "emptyline"]
                     /\ UNCHANGED << lastcmd, ran, called, todo, stop, outcome,
                                     exited >>
                ELSE /\ ran' = [ran EXCEPT ![t] = "none"]
                     /\ called' = [called EXCEPT ![t] = << >>]
                     /\ Returned(t, FALSE)
                     /\ UNCHANGED lastcmd
           ELSE \E m \in {interpret(p)} :
                /\ lastcmd' = [lastcmd EXCEPT ![s] = IF m.sets THEN p.line ELSE @]
                /\ ran' = [ran EXCEPT ![t] = m.ran]
                /\ called' = [called EXCEPT ![t] = m.arg]
                /\ IF m.sets /\ p.line = EOF_MARK
                   THEN /\ pc' = [pc EXCEPT ![t] = "reset"]
                        /\ todo' = [todo EXCEPT ![t] =
                               [@ EXCEPT !.calls = m.calls, !.stop = m.stop]]
                        /\ UNCHANGED << stop, outcome, exited >>
                   ELSE Proceed(t, m.calls, m.stop)
    /\ UNCHANGED << netVars, stream, out, client_shell, running, line, prev,
                    sawEof >>

\* emptyline(): return self.onecmd(self.lastcmd), the attribute read again
\* for the call
EmptyLine(t) ==
    /\ UNCHANGED << backlog, hist >>
    /\ pc[t] = "emptyline"
    /\ pc' = [pc EXCEPT ![t] = "onecmd"]
    /\ todo' = [todo EXCEPT ![t] = [NoCall EXCEPT !.line = lastcmd[running[t]]]]
    /\ UNCHANGED << outcome, netVars, stream, out, client_shell, running,
                    lastcmd, line, stop, ran, called, prev, sawEof, exited >>

\* onecmd: if line == 'EOF': self.lastcmd = ''
ResetLastcmd(t) ==
    /\ UNCHANGED << backlog, hist >>
    /\ pc[t] = "reset"
    /\ lastcmd' = [lastcmd EXCEPT ![running[t]] = << >>]
    /\ Proceed(t, todo[t].calls, todo[t].stop)
    /\ UNCHANGED << netVars, stream, out, client_shell, running, line, ran,
                    called, prev, sawEof >>

\* Shell.print: the test of the stream; a stream that is not set or is
\* closed ends the call with nothing written
PrintGuard(t) ==
    /\ UNCHANGED << backlog, hist >>
    /\ pc[t] = "print"
    /\ IF print_guard(stream[running[t]])
       THEN /\ pc' = [pc EXCEPT ![t] = "write"]
            /\ UNCHANGED << todo, stop, outcome, exited >>
       ELSE Proceed(t, Tail(todo[t].calls), todo[t].stop)
    /\ UNCHANGED << netVars, stream, out, client_shell, running, lastcmd, line,
                    ran, called, prev, sawEof >>

\* one stdout.write() of the method that runs; a write that raises ends
\* onecmd and cmdloop
Write(t) ==
    /\ UNCHANGED << backlog, hist >>
    /\ pc[t] = "write"
    /\ \E s \in {running[t]} :
       \E w \in {write(stream[s], out[s], Head(todo[t].calls).text)} :
           /\ out' = [out EXCEPT ![s] = w.out]
           /\ IF w.raised
              THEN /\ LoopRaised(t)
                   /\ todo' = [todo EXCEPT ![t] = NoCall]
                   /\ UNCHANGED stop
              ELSE Proceed(t, Tail(todo[t].calls), todo[t].stop)
    /\ UNCHANGED << netVars, stream, client_shell, running, lastcmd, line, ran,
                    called, prev, sawEof >>

\* session.close() placed before the call of cmdloop() as well
SessionClose_BeforeLoop(t) ==
    /\ UNCHANGED backlog
    /\ hist' = [hist EXCEPT ![t].closes = @ + 1]
    /\ pc[t] \in {"cmdloop", "close"}
    /\ hist[t].closes = 0 \/ pc[t] = "close"
    /\ pc' = [pc EXCEPT ![t] = IF pc[t] = "close" THEN "done" ELSE pc[t]]
    /\ outcome' = [outcome EXCEPT ![t] =
                      IF pc[t] = "close" THEN "closed" ELSE outcome[t]]
    /\ transport' = [transport EXCEPT ![t] = "closed"]
    /\ stream' = [stream EXCEPT ![t] =
                     IF stream[t] \in {"open", "eof"} THEN "shut" ELSE stream[t]]
    /\ UNCHANGED << banner, authenticated, tries, decision, chanreq, channel,
                    out, client_shell, running, lastcmd, loopVars, exited >>

\* a handler that goes back to accept() for another channel when the loop
\* has returned
SessionClose_AcceptsAgain(t) ==
    /\ UNCHANGED << backlog, hist >>
    /\ pc[t] = "close"
    /\ pc' = [pc EXCEPT ![t] = "accept"]
    /\ channel' = [channel EXCEPT ![t] = IF hist[t].extra THEN "queued" ELSE "none"]
    /\ UNCHANGED << outcome, transport, banner, authenticated, tries, decision, chanreq, stream, out, client_shell, running,
                    lastcmd, loopVars, exited >>

\* ssh_server.py:42, session.close(), and the function returns
SessionClose(t) ==
    /\ UNCHANGED backlog
    /\ hist' = [hist EXCEPT ![t].closes = @ + 1]
    /\ pc[t] = "close"
    /\ pc' = [pc EXCEPT ![t] = "done"]
    /\ outcome' = [outcome EXCEPT ![t] = "closed"]
    /\ transport' = [transport EXCEPT ![t] = "closed"]
    /\ stream' = [stream EXCEPT ![t] =
                     IF stream[t] \in {"open", "eof"} THEN "shut" ELSE stream[t]]
    /\ UNCHANGED << banner, authenticated, tries, decision, chanreq, channel,
                    out, client_shell, running, lastcmd, loopVars, exited >>

(***************************************************************************)
(* The client and the transport thread: what arrives on an active          *)
(* transport, and the callbacks of SshServerInterface it leads to.         *)
(***************************************************************************)
\* the client asks for the ssh-userauth service: get_banner() is sent
ServiceRequest(c) ==
    /\ UNCHANGED << backlog, hist >>
    /\ transport[c] = "active"
    /\ ~banner[c]
    /\ get_banner[1] # << >>
    /\ banner' = [banner EXCEPT ![c] = TRUE]
    /\ UNCHANGED << pc, outcome, transport, authenticated, tries, decision,
                    chanreq, channel, stream, out, client_shell, running,
                    lastcmd, loopVars, exited >>

\* a password request of a client that is not authenticated yet, as the
\* transport puts it to the policy object: check_auth_password decides
AuthPassword(c, username, password) ==
    /\ UNCHANGED << backlog, hist >>
    /\ transport[c] = "active"
    /\ banner[c]
    /\ ~authenticated[c]
    /\ tries[c] < MaxTries
    /\ LET result == check_auth_password(username, password)
       IN  /\ decision' = [decision EXCEPT ![c] =
                  << [username |-> username, password |-> password,
                      result |-> result] >>]
           /\ authenticated' = [authenticated EXCEPT ![c] =
                  (result = AUTH_SUCCESSFUL)]
    /\ tries' = [tries EXCEPT ![c] = tries[c] + 1]
    /\ UNCHANGED << pc, outcome, transport, banner, chanreq, channel, stream,
                    out, client_shell, running, lastcmd, loopVars, exited >>

\* a channel-open request on an authenticated transport:
\* check_channel_request decides; an accepted channel waits for accept()
ChannelOpen(c, kind, chanid) ==
    /\ UNCHANGED backlog
    /\ transport[c] = "active"
    /\ authenticated[c]
    /\ LET result == check_channel_request(kind, chanid)
       IN  /\ chanreq' = [chanreq EXCEPT ![c] =
                  << [kind |-> kind, chanid |-> chanid, result |-> result] >>]
           /\ channel' = [channel EXCEPT ![c] =
                  IF result = OPEN_SUCCEEDED /\ channel[c] = "none"
                  THEN "queued" ELSE channel[c]]
           /\ hist' = [hist EXCEPT ![c].extra =
                  @ \/ (result = OPEN_SUCCEEDED /\ channel[c] # "none")]
    /\ UNCHANGED << pc, outcome, transport, banner, authenticated, tries,
                    decision, stream, out, client_shell, running, lastcmd,
                    loopVars, exited >>

\* the client goes away: the transport ends and its channel is closed
Disconnect(c) ==
    /\ UNCHANGED << backlog, hist >>
    /\ transport[c] = "active"
    /\ transport' = [transport EXCEPT ![c] = "dead"]
    /\ stream' = [stream EXCEPT ![c] =
                     IF stream[c] \in {"open", "eof"} THEN "shut" ELSE stream[c]]
    /\ UNCHANGED << pc, outcome, banner, authenticated, tries, decision,
                    chanreq, channel, out, client_shell, running, lastcmd,
                    loopVars, exited >>

\* the client closes the channel and keeps the transport
PeerClose(c) ==
    /\ UNCHANGED << backlog, hist >>
    /\ stream[c] \in {"open", "eof"}
    /\ stream' = [stream EXCEPT ![c] = "shut"]
    /\ UNCHANGED << pc, outcome, netVars, out, client_shell, running, lastcmd,
                    loopVars, exited >>

\* the client sends end-of-file on the channel and keeps receiving
PeerEof(c) ==
    /\ UNCHANGED << backlog, hist >>
    /\ stream[c] = "open"
    /\ stream' = [stream EXCEPT ![c] = "eof"]
    /\ UNCHANGED << pc, outcome, netVars, out, client_shell, running, lastcmd,
                    loopVars, exited >>

\* the stdio file object is closed: its .closed becomes true
FileClose(c) ==
    /\ UNCHANGED << backlog, hist >>
    /\ stream[c] \in {"open", "eof", "shut"}
    /\ stream' = [stream EXCEPT ![c] = "closed"]
    /\ UNCHANGED << pc, outcome, netVars, out, client_shell, running, lastcmd,
                    loopVars, exited >>

(***************************************************************************)
(* The specification.                                                      *)
(***************************************************************************)
\* the steps of a handler thread that do not wait for the client
HandlerStep(t) ==
    \/ CreateTransport(t)
    \/ NewShell(t)
    \/ CmdLoop(t)
    \/ Intro(t)
    \/ Prompt(t)
    \/ ReadEof(t)
    \/ ReadClosed(t)
    \/ OneCmd(t)
    \/ EmptyLine(t)
    \/ ResetLastcmd(t)
    \/ PrintGuard(t)
    \/ Write(t)
    \/ SessionClose(t)

Next ==
    \/ \E t \in Conns : ListenerAccept(t)
    \/ \E t \in Conns : CreateTransport(t)
    \/ \E t \in Conns : StartServerOk(t)
    \/ \E t \in Conns, exc \in {"SSHException", "EOFError"} : StartServerFails(t, exc)
    \/ \E t \in Conns : AcceptChannel(t)
    \/ \E t \in Conns : AcceptNone(t)
    \/ \E t \in Conns : NewShell(t)
    \/ \E t \in Conns : CmdLoop(t)
    \/ \E t \in Conns : Intro(t)
    \/ \E t \in Conns : Prompt(t)
    \/ \E t \in Conns, raw \in Lines : ReadLine(t, raw)
    \/ \E t \in Conns : ReadEof(t)
    \/ \E t \in Conns : ReadClosed(t)
    \/ \E t \in Conns : OneCmd(t)
    \/ \E t \in Conns : EmptyLine(t)
    \/ \E t \in Conns : ResetLastcmd(t)
    \/ \E t \in Conns : PrintGuard(t)
    \/ \E t \in Conns : Write(t)
    \/ \E t \in Conns : SessionClose(t)
    \/ \E c \in Conns : ServiceRequest(c)
    \/ \E c \in Conns, u \in Users, p \in Passwords : AuthPassword(c, u, p)
    \/ \E c \in Conns, k \in Kinds, i \in ChanIds : ChannelOpen(c, k, i)
    \/ \E c \in Conns : Disconnect(c)
    \/ \E c \in Conns : PeerEof(c)
    \/ \E c \in Conns : PeerClose(c)
    \/ \E c \in Conns : FileClose(c)

Spec == Init /\ [][Next]_vars

\* a handler thread that can take a step without waiting eventually takes it
FairSpec == Spec /\ \A t \in Conns : WF_vars(HandlerStep(t))

(***************************************************************************)
(* Several clients at once, one handler thread per client, the threads     *)
(* interleaved step by step.  A client offers passwords for admin until    *)
(* one is accepted, opens one session channel and sends lines of           *)
(* ConcLines; the negotiation may fail, and the client may close its       *)
(* channel or go away at any moment.                                       *)
(***************************************************************************)
ConcLines ==
    { <<"b","y","e","\n">>,                                  \* 'bye\n'
      <<"g","r","e","e","t","\n">>,                          \* 'greet\n'
      <<"\n">> }                                              \* '\n'

\* every connection the server has room for is taken by a client
ConcInit ==
    /\ backlog = Conns
    /\ InitState

ConcNext ==
    \/ \E t \in Conns : ListenerAccept(t)
    \/ \E t \in Conns : CreateTransport(t)
    \/ \E t \in Conns : StartServerOk(t)
    \/ \E t \in Conns, exc \in {"SSHException", "EOFError"} : StartServerFails(t, exc)
    \/ \E t \in Conns : AcceptChannel(t)
    \/ \E t \in Conns : AcceptNone(t)
    \/ \E t \in Conns : NewShell(t)
    \/ \E t \in Conns : CmdLoop(t)
    \/ \E t \in Conns : Intro(t)
    \/ \E t \in Conns : Prompt(t)
    \/ \E t \in Conns, raw \in ConcLines : ReadLine(t, raw)
    \/ \E t \in Conns : ReadEof(t)
    \/ \E t \in Conns : OneCmd(t)
    \/ \E t \in Conns : EmptyLine(t)
    \/ \E t \in Conns : ResetLastcmd(t)
    \/ \E t \in Conns : PrintGuard(t)
    \/ \E t \in Conns : Write(t)
    \/ \E t \in Conns : SessionClose(t)
    \/ \E c \in Conns : ServiceRequest(c)
    \/ \E c \in Conns, p \in Passwords : AuthPassword(c, "admin", p)
    \/ \E c \in Conns :
           channel[c] = "none" /\ ChannelOpen(c, "session", 0)
    \/ \E c \in Conns : Disconnect(c)
    \/ \E c \in Conns : PeerClose(c)

ConcSpec == ConcInit /\ [][ConcNext]_vars

(***************************************************************************)
(* Properties.                                                             *)
(***************************************************************************)
\* where a thread is while it is in onecmd
InOneCmd == {"onecmd", "emptyline", "reset", "print", "write"}

\* where a thread is while it is in cmdloop
InLoop == {"intro", "prompt", "readline"} \cup InOneCmd

\* the text onecmd has interpreted is line[t]: a onecmd of thread t has
\* returned or raised, and no newer line has been read
Interpreted(t) == ran[t] # "-" /\ pc[t] \notin InOneCmd

\* the stream of the Shell thread t runs takes writes
Writable(t) == stream[running[t]] \in {"open", "eof"}

\* C1: every password decision is AUTH_SUCCESSFUL exactly when the pair is
\* ("admin", "password"), whatever decisions were made before it on the
\* connection (no lockout, no state between calls).
C1_PasswordDecision ==
    \A c \in Conns :
        decision[c] # << >> =>
            LET d == decision[c][1]
            IN  /\ d.result \in {AUTH_SUCCESSFUL, AUTH_FAILED}
                /\ (d.result = AUTH_SUCCESSFUL)
                       <=> (d.username = "admin" /\ d.password = "password")
                /\ authenticated[c] <=> (d.result = AUTH_SUCCESSFUL)

\* the pair is accepted on the second try, after a rejected first try
C1_Witness ==
    \E c \in Conns :
        /\ tries[c] = 2
        /\ decision[c] = << [username |-> "admin", password |-> "password",
                             result |-> AUTH_SUCCESSFUL] >>

\* C2: a channel-open request is accepted when the kind is "session" and
\* rejected as administratively prohibited for every other kind, whatever
\* the channel id.
C2_ChannelDecision ==
    \A c \in Conns :
        chanreq[c] # << >> =>
            LET d == chanreq[c][1]
            IN  /\ d.kind = "session" => d.result = OPEN_SUCCEEDED
                /\ d.kind # "session" =>
                       d.result = OPEN_FAILED_ADMINISTRATIVELY_PROHIBITED

\* a kind other than session was asked for and rejected
C2_Witness ==
    \E c \in Conns :
        /\ chanreq[c] # << >>
        /\ chanreq[c][1].kind = "x11"
        /\ chanreq[c][1].chanid = 1
        /\ chanreq[c][1].result = OPEN_FAILED_ADMINISTRATIVELY_PROHIBITED

\* C3: on a connection the banner comes first, then a password decision of
\* accept, then the shell: no stream, Shell, intro or prompt exists on a
\* connection whose last password decision is not the accepted
\* ("admin", "password"), and no password decision is made before the banner.
C3_BannerAuthShell ==
    \A c \in Conns :
        /\ decision[c] # << >> => banner[c]
        /\ ( \/ pc[c] \in {"shell", "cmdloop", "close"} \cup InLoop
             \/ stream[c] # "none"
             \/ out[c] # << >>
             \/ client_shell = c
             \/ \E t \in Conns : running[t] = c )
           => /\ banner[c]
              /\ authenticated[c]
              /\ decision[c] = << [username |-> "admin", password |-> "password",
                                   result |-> AUTH_SUCCESSFUL] >>

\* the intro and the first prompt are on the stream of an authenticated client
C3_Witness ==
    \E c \in Conns :
        /\ authenticated[c]
        /\ pc[c] = "readline"
        /\ out[c] = << intro \o LF, prompt >>

\* C4: once cmdloop has ended, either it returned because a command method
\* returned true, or the stream of its Shell is closed.
C4_ExitOnlyOnStopOrClose ==
    \A t \in Conns :
        /\ exited[t] = "returned" =>
               stop[t] /\ ran[t] \in {"do_greet", "do_bye", "do_help"}
        /\ exited[t] = "raised" => stream[running[t]] \in {"shut", "closed"}
        /\ pc[t] = "close" => exited[t] = "returned"

\* cmdloop returned on an open stream
C4_Witness ==
    \E t \in Conns :
        /\ exited[t] = "returned"
        /\ stop[t]
        /\ stream[running[t]] = "open"

\* C5: if a readline of the Shell returned end-of-file, cmdloop eventually
\* ends (under FairSpec: the handler thread keeps running).
C5_EofEndsLoop ==
    \A t \in Conns : sawEof[t] ~> (exited[t] # "no")

\* C6: when connection_function has finished after its Shell's cmdloop
\* ended, returning or raising, it has closed the transport of its connection.
C6_TransportClosedAfterShell ==
    \A t \in Conns :
        (pc[t] = "done" /\ exited[t] # "no") =>
            (outcome[t] = "closed" /\ transport[t] = "closed")

\* the texts of the claims about the Shell, spelled out
BYE_LINE == <<"b","y","e">>
\* 'bye  now' after a unit separator (0x1f) and an Ogham space mark (U+1680)
\* and before a no-break space (0xa0)
BYE_NOW_LINE == <<""," ","b","y","e"," "," ","n","o","w"," ">>
GREET_LINE == <<"g","r","e","e","t">>
GREET_BOB_LINE == <<"g","r","e","e","t"," ","B","o","b">>
GREET_BANG_LINE == <<"g","r","e","e","t","!","x">>
FOO_BAR_LINE == <<"f","o","o"," ","b","a","r">>
BANG_LS_LINE == <<"!","l","s">>
QUESTION_LINE == <<"?">>
QUESTION_GREET_LINE == <<"?"," ","g","r","e","e","t">>
SEE_YOU_OUT ==
    <<"S","e","e"," ","y","o","u"," ","l","a","t","e","r","!","\r","\n">>
HEY_BOB_OUT ==
    <<"H","e","y"," ","B","o","b","!"," ","N","i","c","e"," ","t","o"," ","s","e","e"," ","y","o","u","!","\r","\n">>
HEY_BANG_OUT ==
    <<"H","e","y"," ","!","x","!"," ","N","i","c","e"," ","t","o"," ","s","e","e"," ","y","o","u","!","\r","\n">>
HELLO_THERE_OUT ==
    <<"H","e","l","l","o"," ","t","h","e","r","e","!","\r","\n">>
UNKNOWN_FOO_BAR_OUT ==
    <<"*","*","*"," ","U","n","k","n","o","w","n"," ","s","y","n","t","a","x",":"," ","f","o","o"," ","b","a","r","\n">>
UNKNOWN_EOF_OUT ==
    <<"*","*","*"," ","U","n","k","n","o","w","n"," ","s","y","n","t","a","x",":"," ","E","O","F","\n">>
NO_HELP_ON_GREET_OUT ==
    <<"*","*","*"," ","N","o"," ","h","e","l","p"," ","o","n"," ","g","r","e","e","t","\n">>
UNKNOWN_BANG_LS_OUT ==
    <<"*","*","*"," ","U","n","k","n","o","w","n"," ","s","y","n","t","a","x",":"," ","!","l","s","\n">>

\* what bye leaves behind in thread t, whose write did not raise
ByeDone(t) ==
    /\ stop[t]
    /\ ran[t] = "do_bye"
    /\ exited[t] = "returned"
    /\ pc[t] \in {"close", "done"}
    /\ stream[running[t]] # "closed" => out[running[t]] = << SEE_YOU_OUT >>

\* C7: the line "bye", whatever was entered before it, writes exactly
\* "See you later!\r\n" to a stream that takes writes and ends the loop; once
\* the loop has ended no line is read or interpreted and nothing is written.
C7_ByeTerminates ==
    /\ [](\A t \in Conns :
            (Interpreted(t) /\ line[t] \in {BYE_LINE, BYE_NOW_LINE}
                /\ exited[t] # "raised") => ByeDone(t))
    /\ [][\A t \in Conns :
            exited[t] # "no" =>
                /\ line'[t] = line[t]
                /\ ran'[t] = ran[t]
                /\ lastcmd'[running[t]] = lastcmd[running[t]]
                /\ out'[running[t]] = out[running[t]]
                /\ exited'[t] = exited[t]]_vars

\* bye was entered after another command and ended the loop with its farewell
C7_Witness ==
    \E t \in Conns :
        /\ line[t] = BYE_LINE
        /\ prev[t] = << GREET_BOB_LINE >>
        /\ exited[t] = "returned"
        /\ out[running[t]] = << SEE_YOU_OUT >>

\* C8: "greet <name>" writes exactly "Hey <name>! Nice to see you!\r\n" and
\* "greet" writes exactly "Hello there!\r\n" to a stream that takes writes,
\* whatever was entered before, and the loop goes on.
C8_GreetOutput ==
    \A t \in Conns :
        (Interpreted(t) /\ line[t] \in {GREET_LINE, GREET_BOB_LINE, GREET_BANG_LINE}
            /\ exited[t] # "raised")
        => /\ ran[t] = "do_greet"
           /\ ~stop[t]
           /\ exited[t] = "no"
           /\ (pc[t] = "prompt" /\ stream[running[t]] # "closed") =>
                  out[running[t]] =
                      << IF line[t] = GREET_LINE THEN HELLO_THERE_OUT
                         ELSE IF line[t] = GREET_BOB_LINE THEN HEY_BOB_OUT
                         ELSE HEY_BANG_OUT >>

\* the same greet line entered twice in a row, greeted the second time as well
C8_Witness ==
    \E t \in Conns :
        /\ line[t] = GREET_BOB_LINE
        /\ prev[t] = << GREET_BOB_LINE >>
        /\ pc[t] = "prompt"
        /\ out[running[t]] = << HEY_BOB_OUT >>

\* C9: an unrecognized line is answered with the error line when the stream
\* takes writes and never ends the loop by itself (the loop ends there only
\* by a write that raises on a closed stream); bye entered right after it
\* ends the loop as usual.
C9_UnknownKeepsSession ==
    \A t \in Conns :
        /\ (Interpreted(t) /\ line[t] = FOO_BAR_LINE)
           => /\ ran[t] = "default"
              /\ ~stop[t]
              /\ exited[t] # "returned"
              /\ exited[t] = "raised" => stream[running[t]] \in {"shut", "closed"}
              /\ exited[t] = "no" => pc[t] \in {"prompt", "readline"}
              /\ pc[t] = "prompt" => out[running[t]] = << UNKNOWN_FOO_BAR_OUT >>
        /\ (Interpreted(t) /\ prev[t] = << FOO_BAR_LINE >> /\ line[t] = BYE_LINE
                /\ exited[t] # "raised") => ByeDone(t)

\* bye after an unrecognized line ended the loop with its farewell
C9_Witness ==
    \E t \in Conns :
        /\ prev[t] = << FOO_BAR_LINE >>
        /\ line[t] = BYE_LINE
        /\ exited[t] = "returned"
        /\ out[running[t]] = << SEE_YOU_OUT >>

(***************************************************************************)
(* What the claims say about splitting a line, stated on its own: a line   *)
(* without the whitespace around it, its first whitespace-delimited token, *)
(* its leading run of identifier characters, and what follows them.        *)
(***************************************************************************)
NonBlank(l) == \E i \in 1..Len(l) : l[i] \notin WHITESPACE

Stripped(l) ==
    IF ~NonBlank(l) THEN << >>
    ELSE LET i == CHOOSE i \in 1..Len(l) :
                      /\ l[i] \notin WHITESPACE
                      /\ \A k \in 1..(i - 1) : l[k] \in WHITESPACE
             j == CHOOSE j \in 1..Len(l) :
                      /\ l[j] \notin WHITESPACE
                      /\ \A k \in (j + 1)..Len(l) : l[k] \in WHITESPACE
         IN  SubSeq(l, i, j)

\* the length of the longest prefix of s all of whose characters are in chars
PrefixLen(s, chars) ==
    CHOOSE n \in 0..Len(s) :
        /\ \A k \in 1..n : s[k] \in chars
        /\ n = Len(s) \/ s[n + 1] \notin chars

\* the length of the longest prefix of s without a whitespace character
TokenLen(s) ==
    CHOOSE n \in 0..Len(s) :
        /\ \A k \in 1..n : s[k] \notin WHITESPACE
        /\ n = Len(s) \/ s[n + 1] \in WHITESPACE

FirstToken(l) == SubSeq(Stripped(l), 1, TokenLen(Stripped(l)))
AfterToken(l) ==
    Stripped(SubSeq(Stripped(l), TokenLen(Stripped(l)) + 1, Len(Stripped(l))))

\* a leading ? reads as help
Expanded(l) ==
    IF NonBlank(l) /\ Head(Stripped(l)) = "?"
    THEN HELP_SP \o Tail(Stripped(l))
    ELSE Stripped(l)
IdentRun(l) == SubSeq(Expanded(l), 1, PrefixLen(Expanded(l), IDENTCHARS))
AfterIdentRun(l) ==
    Stripped(SubSeq(Expanded(l), PrefixLen(Expanded(l), IDENTCHARS) + 1,
                    Len(Expanded(l))))

\* more texts of the claims, spelled out
HELP_HELP_LINE == <<"h","e","l","p"," ","h","e","l","p">>
BLANK_LINE == << " ", "\t" >>
UNKNOWN_SYNTAX_OUT == <<"*","*","*"," ","U","n","k","n","o","w","n"," ","s","y","n","t","a","x",":"," ">>
NO_HELP_ON_OUT == <<"*","*","*"," ","N","o"," ","h","e","l","p"," ","o","n"," ">>
HELP_DOC_OUT ==
    <<"L","i","s","t"," ","a","v","a","i","l","a","b","l","e"," ","c","o","m","m","a","n","d","s"," ","w","i","t","h"," ","\"","h","e","l","p","\""," ","o","r"," ","d","e","t","a","i","l","e","d"," ","h","e","l","p"," ","w","i","t","h"," ","\"","h","e","l","p"," ","c","m","d","\"",".","\n">>

\* what the error line of thread t's last line looks like: onecmd ran
\* default() and nothing else, and the loop goes on
ErrorLine(t, text) ==
    /\ ran[t] = "default"
    /\ ~stop[t]
    /\ pc[t] = "prompt" => out[running[t]] = << text >>

\* C10 as claimed: every line whose command is neither greet nor bye,
\* the empty line, help, ? and the end-of-input marker included, yields
\* the error line and runs no command method.
C10_OnlyGreetAndBye ==
    \A t \in Conns :
        (Interpreted(t) /\ exited[t] # "raised"
            /\ line[t] \in {FOO_BAR_LINE, EOF_MARK, BANG_LS_LINE, << >>,
                            CMD_HELP, QUESTION_LINE, QUESTION_GREET_LINE})
        => ran[t] = "default"

\* what help writes for a topic: with none the list of commands in nine
\* writes, for the topic help its own description, for any other topic
\* that there is no help on it
HelpAnswer(o, topic) ==
    IF topic = << >>
    THEN /\ Len(o) = 9
         /\ o[2] = DOC_HEADER \o LF
         /\ o[4] = CMD_HELP \o LF
         /\ o[8] = UNDOC_NAMES \o LF
    ELSE IF topic = CMD_HELP
    THEN o = << HELP_DOC_OUT >>
    ELSE o = << NO_HELP_ON_OUT \o topic \o LF >>

\* what interpreting the nonblank line l leaves behind in thread t, whose
\* writes did not raise: the method of its command name ran, help wrote its
\* answer and no error line, and a line of no command got the error line
Answered(t, l) ==
    /\ IdentRun(l) = CMD_GREET => ran[t] = "do_greet"
    /\ IdentRun(l) = CMD_BYE => ran[t] = "do_bye"
    /\ IdentRun(l) = CMD_HELP =>
           /\ ran[t] = "do_help"
           /\ ~stop[t]
           /\ pc[t] = "prompt" => HelpAnswer(out[running[t]], AfterIdentRun(l))
    /\ IdentRun(l) \notin {CMD_GREET, CMD_BYE, CMD_HELP} =>
           ErrorLine(t, UNKNOWN_SYNTAX_OUT \o Stripped(l) \o LF)

\* the line starts, after its leading whitespace, with !
Banged(l) == NonBlank(l) /\ Head(Stripped(l)) = "!"

\* C10, amended: a line that is not blank and whose command is none of
\* greet, bye and help (a leading ? is help) yields the error line with the
\* stripped line in it and runs no command method; help runs cmd.Cmd's
\* do_help, which writes no error line but the list of commands, or its own
\* description for the topic help, or that there is no help on any other
\* topic; a blank line (empty or whitespace only) interprets again the line
\* the Shell remembers, with that line's answer, and does nothing when it
\* remembers none.  The Shell remembers the last line that was neither blank
\* nor started with ! (a leading ? spelled help), and nothing once that line
\* was EOF; a blank line or a line starting with ! leaves what it remembers
\* as it is, but for whitespace around it.
C10_CommandSurface ==
    /\ [](\A t \in Conns :
            Interpreted(t) =>
                /\ (NonBlank(line[t]) /\ exited[t] # "raised") =>
                       Answered(t, line[t])
                /\ (line[t] = EOF_MARK /\ exited[t] # "raised") =>
                       ErrorLine(t, UNKNOWN_EOF_OUT)
                /\ (line[t] = BANG_LS_LINE /\ exited[t] # "raised") =>
                       ErrorLine(t, UNKNOWN_BANG_LS_OUT)
                /\ (line[t] = QUESTION_GREET_LINE /\ exited[t] # "raised"
                        /\ pc[t] = "prompt") =>
                       out[running[t]] = << NO_HELP_ON_GREET_OUT >>
                /\ (~NonBlank(line[t]) /\ exited[t] # "raised") =>
                       IF lastcmd[running[t]] = << >>
                       THEN /\ ran[t] = "none"
                            /\ ~stop[t]
                            /\ out[running[t]] \in {<< >>, << prompt >>}
                       ELSE Answered(t, lastcmd[running[t]])
                /\ (NonBlank(line[t]) /\ ~Banged(line[t])) =>
                       lastcmd[running[t]] =
                           IF Stripped(line[t]) = EOF_MARK
                           THEN << >>
                           ELSE Expanded(line[t]))
    /\ [][\A t \in Conns :
            (pc[t] \in InOneCmd /\ (~NonBlank(line[t]) \/ Banged(line[t]))) =>
                Stripped(lastcmd'[running[t]]) = Stripped(lastcmd[running[t]])]_vars

\* a whitespace-only line entered after help help was answered with the
\* description of help once more
C10_Witness ==
    \E t \in Conns :
        /\ pc[t] = "prompt"
        /\ line[t] = BLANK_LINE
        /\ prev[t] = << HELP_HELP_LINE >>
        /\ ran[t] = "do_help"
        /\ out[running[t]] = << HELP_DOC_OUT >>

\* C11: a step of the Shell that writes (the intro, the prompt, a command's
\* output, the unrecognized-command message) while its stream is closed
\* raises nothing and writes nothing.
C11_ClosedStreamWritesSilent ==
    [][\A t \in Conns :
          (pc[t] \in {"intro", "prompt", "print", "write"}
              /\ stream[running[t]] = "closed")
          => /\ exited'[t] # "raised"
             /\ out'[running[t]] = out[running[t]]]_vars

\* C12: a handler that has finished has returned (nothing is raised to the
\* listener), and a handler ends by a swallowed error only when the error is
\* one of its own connection: its transport ended or its stream is closed.
\* The other connections' handlers go on.
C12_ErrorsContained ==
    \A t \in Conns :
        /\ pc[t] = "done" => outcome[t] \in {"returned", "closed", "swallowed"}
        /\ outcome[t] = "swallowed" =>
               (transport[t] \in {"failed", "dead"} \/ stream[t] \in {"shut", "closed"})

\* C13: in every interleaving the Shell a handler is about to run, and the
\* Shell whose loop it runs, is the one built over its own stream, so no two
\* handlers run the same Shell.
C13_OwnShell ==
    \A t \in Conns :
        /\ pc[t] = "cmdloop" => client_shell = t
        /\ running[t] \in {0, t}

\* C15 as claimed: a command method runs exactly when the first
\* whitespace-delimited token of the line is its name, and is called with
\* the rest of the line.
C15_FirstTokenIsCommand ==
    \A t \in Conns :
        Interpreted(t) =>
            /\ ran[t] = "do_greet" <=> FirstToken(line[t]) = CMD_GREET
            /\ ran[t] = "do_bye" <=> FirstToken(line[t]) = CMD_BYE
            /\ ran[t] \in {"do_greet", "do_bye"} => called[t] = AfterToken(line[t])

\* C15, amended: the command name of a nonblank line is its leading run of
\* identifier characters (letters, digits, underscore), a leading ? reading
\* as help; the method of that name runs, called with what follows the run,
\* stripped; a line whose run names no command goes to default() whole.
C15_IdentRunIsCommand ==
    \A t \in Conns :
        (Interpreted(t) /\ NonBlank(line[t])) =>
            /\ ran[t] = "do_greet" <=> IdentRun(line[t]) = CMD_GREET
            /\ ran[t] = "do_bye" <=> IdentRun(line[t]) = CMD_BYE
            /\ ran[t] = "do_help" <=> IdentRun(line[t]) = CMD_HELP
            /\ ran[t] \in {"do_greet", "do_bye", "do_help"} =>
                   called[t] = AfterIdentRun(line[t])
            /\ ran[t] \notin {"do_greet", "do_bye", "do_help"} =>
                   (ran[t] = "default" /\ called[t] = Expanded(line[t]))

\* greet!x was dispatched to do_greet with the argument !x
C15_Witness ==
    \E t \in Conns :
        /\ Interpreted(t)
        /\ line[t] = GREET_BANG_LINE
        /\ ran[t] = "do_greet"
        /\ called[t] = << "!", "x" >>
        /\ pc[t] = "prompt"
        /\ out[running[t]] = << HEY_BANG_OUT >>

\* C16: a handler whose negotiation failed has returned, with no channel
\* accepted, no stream, no Shell and nothing written; and it stays so: the
\* negotiation is not tried again and the handler takes no further step.
C16_FailedNegotiationDrops ==
    /\ [](\A t \in Conns :
            transport[t] = "failed" =>
                /\ pc[t] = "done"
                /\ outcome[t] \in {"returned", "swallowed"}
                /\ channel[t] = "none"
                /\ stream[t] = "none"
                /\ out[t] = << >>
                /\ client_shell # t
                /\ running[t] = 0
                /\ exited[t] = "no"
                /\ ~banner[t] /\ decision[t] = << >> /\ chanreq[t] = << >>)
    /\ [][\A t \in Conns :
            transport[t] = "failed" =>
                (transport'[t] = "failed" /\ pc'[t] = "done"
                    /\ outcome'[t] = outcome[t])]_vars

\* the negotiation failed with an SSHException and the handler returned
C16_Witness ==
    \E t \in Conns :
        /\ transport[t] = "failed"
        /\ pc[t] = "done"
        /\ outcome[t] = "returned"

\* C17: a handler calls accept() once, when the negotiation has succeeded,
\* and cmdloop() at most once, on the channel that call returned; it is never
\* back at accept() or at the start of a loop, not even when the client has
\* opened another channel.
C17_OneChannelOneShell ==
    \A t \in Conns :
        /\ hist[t].accepts <= 1
        /\ hist[t].loops <= 1
        /\ pc[t] \in {"idle", "transport", "start_server", "accept"} =>
               (hist[t].accepts = 0 /\ hist[t].loops = 0)
        /\ pc[t] \in {"shell", "cmdloop", "close"} \cup InLoop =>
               (hist[t].accepts = 1 /\ channel[t] = "accepted")
        /\ pc[t] \in {"shell", "cmdloop"} => hist[t].loops = 0
        /\ pc[t] \in {"close"} \cup InLoop => hist[t].loops = 1
        /\ (pc[t] = "done" /\ transport[t] # "failed") => hist[t].accepts = 1
        /\ hist[t].loops = 1 => hist[t].accepts = 1

\* the client has opened a second session channel, which was granted, and
\* the handler has finished after its one loop without accepting it
C17_Witness ==
    \E t \in Conns :
        /\ hist[t].extra
        /\ pc[t] = "done"
        /\ exited[t] = "returned"
        /\ hist[t].accepts = 1
        /\ hist[t].loops = 1

\* C18: the intro is written at most once to the stream of a session, and
\* exactly once, before any line is read, when the session's handler is in
\* its shell loop or has left it by a command.
C18_IntroOnce ==
    \A t \in Conns :
        /\ hist[t].intros <= 1
        /\ pc[t] \in ({"close"} \cup InLoop) \ {"intro"} => hist[t].intros = 1
        /\ (ran[t] # "-" \/ exited[t] = "returned") => hist[t].intros = 1

\* C19: a handler calls close() on its transport at most once, as its last
\* step and only when its cmdloop() call has returned; while the handler is
\* before or in its loop the transport has not been closed by it.
C19_CloseAfterLoop ==
    \A t \in Conns :
        /\ hist[t].closes <= 1
        /\ hist[t].closes = 1 <=> transport[t] = "closed"
        /\ transport[t] = "closed" =>
               /\ pc[t] = "done"
               /\ outcome[t] = "closed"
               /\ exited[t] = "returned"
               /\ hist[t].loops = 1
        /\ pc[t] \in {"shell", "cmdloop", "close"} \cup InLoop =>
               (hist[t].closes = 0 /\ transport[t] \in {"active", "dead"})

\* the loop returned on bye after another command and the transport was
\* closed then, once
C19_Witness ==
    \E t \in Conns :
        /\ transport[t] = "closed"
        /\ hist[t].closes = 1
        /\ exited[t] = "returned"
        /\ ran[t] = "do_bye"
        /\ prev[t] = << GREET_LINE >>

====
